---- MODULE Spec2Model ----
(***************************************************************************)
(* A model of src/games/twenty_forty_eight/game.py: the generalized 2048   *)
(* rules engine (Game, ArrayHelper, GameConfig, SlideResult).              *)
(*                                                                         *)
(* Python lists are TLA+ sequences: Python index i is TLA+ index i + 1.    *)
(* A grid is a sequence of rows, each a sequence of tile values, so the    *)
(* tile at (column c, row r) is grid[r + 1][c + 1].  Locations are kept as *)
(* the 0-based pairs <<c, r>> the program stores.                          *)
(***************************************************************************)
EXTENDS Integers, Sequences, FiniteSets, TLC

VARIABLES
    config,                  \* Game.config
    init_mode,               \* Game.init_mode
    grid,                    \* Game.grid, as tile values
    score,                   \* Game.score
    movement_matrix,         \* Game.movement_matrix
    latest_spawn_result,     \* Game.latest_spawn_result: "None", "True", "False"
    latest_spawn_locations,  \* Game.latest_spawn_locations
    last,                    \* record of the most recent call and the state it started from
    turns                    \* number of calls made after construction

vars == <<config, init_mode, grid, score, movement_matrix,
          latest_spawn_result, latest_spawn_locations, last, turns>>

(***************************************************************************)
(* Bounds of the model.                                                    *)
(***************************************************************************)
\* Tiles handed to set_tiles and _slide_helper are 0 or root^k, 1 <= k <= MaxExp.
MaxExp == 2
\* Lines handed to _slide_helper directly have 1..MaxLen cells.
MaxLen == 5
\* Calls made on one game after construction, when the game is played.
MaxTurns == 2
\* slide_tiles calls made on one game after set_tiles, when the game is only slid.
MaxSlides == 3

(***************************************************************************)
(* SlideDirection, SlideResult and the Python values None / True / False.  *)
(***************************************************************************)
UP == "UP"
RIGHT == "RIGHT"
DOWN == "DOWN"
LEFT == "LEFT"
NONE == "NONE"
SlideDirection == {UP, RIGHT, DOWN, LEFT}

NORMAL == "NORMAL"
BOARD_FULL == "BOARD_FULL"
SPAWN_KILL == "SPAWN_KILL"
SPAWN_FILL == "SPAWN_FILL"
SlideResult == {NORMAL, BOARD_FULL, SPAWN_KILL, SPAWN_FILL}

PyNone == "None"
PyBool(b) == IF b THEN "True" ELSE "False"
\* The location _spawn_new_tile returns when no cell is empty (None).
NoneLoc == <<>>

(***************************************************************************)
(* Plain list helpers.                                                     *)
(***************************************************************************)
\* l[::-1]
Reverse(l) == [i \in 1..Len(l) |-> l[Len(l) + 1 - i]]

\* [0 for _ in l]
Zeros(n) == [i \in 1..n |-> 0]

\* l[i] for a Python index i, negative indices counting from the end
PyAt(l, i) == IF i < 0 THEN l[Len(l) + i + 1] ELSE l[i + 1]

RECURSIVE Pow(_, _)
Pow(b, k) == IF k = 0 THEN 1 ELSE b * Pow(b, k - 1)

RECURSIVE SumSeq(_)
SumSeq(s) == IF Len(s) = 0 THEN 0 ELSE Head(s) + SumSeq(Tail(s))

\* ArrayHelper.first_non_zero_index
RECURSIVE first_non_zero_index(_, _)
first_non_zero_index(array, start_index) ==
    IF start_index >= Len(array) THEN -1
    ELSE IF array[start_index + 1] # 0 THEN start_index
    ELSE first_non_zero_index(array, start_index + 1)

\* ArrayHelper.transpose_columns: [list(row) for row in zip(*array)]
transpose_columns(array) ==
    IF array = <<>> THEN <<>>
    ELSE [j \in 1..Len(array[1]) |-> [i \in 1..Len(array) |-> array[i][j]]]

(***************************************************************************)
(* Game._slide_helper.  The loop state is new_list, movement, new_index    *)
(* and self.score; SlideStep is one iteration of the for loop.             *)
(***************************************************************************)
\* l[i] = v for a Python index i >= 0
ListSet(l, i, v) == [j \in 1..Len(l) |-> IF j = i + 1 THEN v ELSE l[j]]

\* A loop body that forgets to close the merged slot (new_index += 1).
SlideStepNoClose(l_copy, i, st, root) ==
    LET v == PyAt(l_copy, i)
        ni == st.new_index
    IN  IF v = 0 THEN st
        ELSE IF v = st.new_list[ni + 1]
        THEN [new_list |-> ListSet(st.new_list, ni, st.new_list[ni + 1] * root),
              movement |-> ListSet(st.movement, i, ni - i),
              new_index |-> ni,
              score |-> st.score + v * root]
        ELSE IF st.new_list[ni + 1] = 0
        THEN [new_list |-> ListSet(st.new_list, ni, v),
              movement |-> ListSet(st.movement, i, ni - i),
              new_index |-> ni,
              score |-> st.score]
        ELSE [new_list |-> ListSet(st.new_list, ni + 1, v),
              movement |-> ListSet(st.movement, i, ni + 1 - i),
              new_index |-> ni + 1,
              score |-> st.score]

\* A loop body that adds the tile's value, not value * root, to the score.
SlideStepScoreValue(l_copy, i, st, root) ==
    LET v == PyAt(l_copy, i)
        ni == st.new_index
    IN  IF v = 0 THEN st
        ELSE IF v = st.new_list[ni + 1]
        THEN [new_list |-> ListSet(st.new_list, ni, st.new_list[ni + 1] * root),
              movement |-> ListSet(st.movement, i, ni - i),
              new_index |-> ni + 1,
              score |-> st.score + v]
        ELSE IF st.new_list[ni + 1] = 0
        THEN [new_list |-> ListSet(st.new_list, ni, v),
              movement |-> ListSet(st.movement, i, ni - i),
              new_index |-> ni,
              score |-> st.score]
        ELSE [new_list |-> ListSet(st.new_list, ni + 1, v),
              movement |-> ListSet(st.movement, i, ni + 1 - i),
              new_index |-> ni + 1,
              score |-> st.score]

\* A loop body that records no movement for a tile placed in an empty slot.
SlideStepNoPlaceMovement(l_copy, i, st, root) ==
    LET v == PyAt(l_copy, i)
        ni == st.new_index
    IN  IF v = 0 THEN st
        ELSE IF v = st.new_list[ni + 1]
        THEN [new_list |-> ListSet(st.new_list, ni, st.new_list[ni + 1] * root),
              movement |-> ListSet(st.movement, i, ni - i),
              new_index |-> ni + 1,
              score |-> st.score + v * root]
        ELSE IF st.new_list[ni + 1] = 0
        THEN [new_list |-> ListSet(st.new_list, ni, v),
              movement |-> st.movement,
              new_index |-> ni,
              score |-> st.score]
        ELSE [new_list |-> ListSet(st.new_list, ni + 1, v),
              movement |-> ListSet(st.movement, i, ni + 1 - i),
              new_index |-> ni + 1,
              score |-> st.score]

\* A loop body that packs the tiles and never merges.
SlideStepNoMerge(l_copy, i, st, root) ==
    LET v == PyAt(l_copy, i)
        ni == st.new_index
    IN  IF v = 0 THEN st
        ELSE IF st.new_list[ni + 1] = 0
        THEN [new_list |-> ListSet(st.new_list, ni, v),
              movement |-> ListSet(st.movement, i, ni - i),
              new_index |-> ni,
              score |-> st.score]
        ELSE [new_list |-> ListSet(st.new_list, ni + 1, v),
              movement |-> ListSet(st.movement, i, ni + 1 - i),
              new_index |-> ni + 1,
              score |-> st.score]

\* A loop body whose merge adds root_tile_value instead of multiplying by it.
SlideStepMergeAddsRoot(l_copy, i, st, root) ==
    LET v == PyAt(l_copy, i)
        ni == st.new_index
    IN  IF v = 0 THEN st
        ELSE IF v = st.new_list[ni + 1]
        THEN [new_list |-> ListSet(st.new_list, ni, st.new_list[ni + 1] + root),
              movement |-> ListSet(st.movement, i, ni - i),
              new_index |-> ni + 1,
              score |-> st.score + v * root]
        ELSE IF st.new_list[ni + 1] = 0
        THEN [new_list |-> ListSet(st.new_list, ni, v),
              movement |-> ListSet(st.movement, i, ni - i),
              new_index |-> ni,
              score |-> st.score]
        ELSE [new_list |-> ListSet(st.new_list, ni + 1, v),
              movement |-> ListSet(st.movement, i, ni + 1 - i),
              new_index |-> ni + 1,
              score |-> st.score]

\* One iteration of the loop of _slide_helper, for the index i.
SlideStep(l_copy, i, st, root) ==
    LET v == PyAt(l_copy, i)
        ni == st.new_index
    IN  IF v = 0 THEN st
        ELSE IF v = st.new_list[ni + 1]
        THEN [new_list |-> ListSet(st.new_list, ni, st.new_list[ni + 1] * root),
              movement |-> ListSet(st.movement, i, ni - i),
              new_index |-> ni + 1,
              score |-> st.score + v * root]
        ELSE IF st.new_list[ni + 1] = 0
        THEN [new_list |-> ListSet(st.new_list, ni, v),
              movement |-> ListSet(st.movement, i, ni - i),
              new_index |-> ni,
              score |-> st.score]
        ELSE [new_list |-> ListSet(st.new_list, ni + 1, v),
              movement |-> ListSet(st.movement, i, ni + 1 - i),
              new_index |-> ni + 1,
              score |-> st.score]

\* for i in range(start_index, len(l_copy))
RECURSIVE SlideLoop(_, _, _, _)
SlideLoop(l_copy, i, st, root) ==
    IF i >= Len(l_copy) THEN st
    ELSE SlideLoop(l_copy, i + 1, SlideStep(l_copy, i, st, root), root)

\* A helper that forgets to mirror the result back for DOWN / RIGHT.
SlideHelperNoUnreverse(direction, row_o_col, root, sc) ==
    LET l_copy == IF direction \in {DOWN, RIGHT} THEN Reverse(row_o_col) ELSE row_o_col
        st0 == [new_list |-> Zeros(Len(l_copy)), movement |-> Zeros(Len(l_copy)),
                new_index |-> 0, score |-> sc]
        Return(st) ==
            [new_list |-> st.new_list,
             movement |-> IF direction \in {DOWN, RIGHT}
                          THEN [k \in 1..Len(l_copy) |-> -Reverse(st.movement)[k]]
                          ELSE st.movement,
             score |-> st.score]
    IN  Return(SlideLoop(l_copy, first_non_zero_index(l_copy, 0), st0, root))

\* _slide_helper(direction, row_o_col) on a game whose root_tile_value is root
\* and whose score is sc: the new line, the movement and the new score.
slide_helper(direction, row_o_col, root, sc) ==
    LET l_copy == IF direction \in {DOWN, RIGHT} THEN Reverse(row_o_col) ELSE row_o_col
        st0 == [new_list |-> Zeros(Len(l_copy)), movement |-> Zeros(Len(l_copy)),
                new_index |-> 0, score |-> sc]
        Return(st) ==
            [new_list |-> IF direction \in {DOWN, RIGHT} THEN Reverse(st.new_list)
                          ELSE st.new_list,
             movement |-> IF direction \in {DOWN, RIGHT}
                          THEN [k \in 1..Len(l_copy) |-> -Reverse(st.movement)[k]]
                          ELSE st.movement,
             score |-> st.score]
    IN  Return(SlideLoop(l_copy, first_non_zero_index(l_copy, 0), st0, root))

(***************************************************************************)
(* The Grid collaborator (src.tiled_tools.common.grid is not part of the   *)
(* sources): a size x size container addressed by (column, row).           *)
(***************************************************************************)
GridGet(g, c, r) == g[r + 1][c + 1]
GridSet(g, c, r, v) ==
    [rr \in 1..Len(g) |->
        [cc \in 1..Len(g[rr]) |-> IF rr = r + 1 /\ cc = c + 1 THEN v ELSE g[rr][cc]]]
get_row(g, r) == g[r + 1]
get_col(g, c) == [k \in 1..Len(g) |-> g[k][c + 1]]
OnBoard(g, c, r) == c >= 0 /\ r >= 0 /\ r < Len(g) /\ c < Len(g)
\* the tiles of those of the given cells that are on the board
RECURSIVE TilesOnBoard(_, _)
TilesOnBoard(g, cand) ==
    IF Len(cand) = 0 THEN <<>>
    ELSE IF OnBoard(g, Head(cand)[1], Head(cand)[2])
    THEN <<GridGet(g, Head(cand)[1], Head(cand)[2])>> \o TilesOnBoard(g, Tail(cand))
    ELSE TilesOnBoard(g, Tail(cand))

\* the up / down / left / right neighbours that exist on the board
get_adjacent(g, c, r) ==
    TilesOnBoard(g, << <<c, r - 1>>, <<c, r + 1>>, <<c - 1, r>>, <<c + 1, r>> >>)

\* TileHelper.build_grid_with_value
build_grid_with_value(value, size) == [r \in 1..size |-> [c \in 1..size |-> value]]

\* The cells in the order of "for r in range(size): for c in range(size)".
RowMajor(size) == [k \in 1..(size * size) |-> <<(k - 1) % size, (k - 1) \div size>>]

(***************************************************************************)
(* Game: the pure part of each method, on explicit state.                  *)
(***************************************************************************)
\* Game.set_tiles: writes new_list[r][c] for r, c in range(grid_size)
set_tiles(new_list, size) == [r \in 1..size |-> [c \in 1..size |-> new_list[r][c]]]

\* The loop of slide_each_row / slide_each_column: _slide_helper on each line
\* in turn, every call adding to self.score.
RECURSIVE SlideLines(_, _, _, _, _)
SlideLines(lines, k, direction, root, acc) ==
    IF k > Len(lines) THEN acc
    ELSE LET Appended(h) == [values |-> Append(acc.values, h.new_list),
                             movement |-> Append(acc.movement, h.movement),
                             score |-> h.score]
         IN  SlideLines(lines, k + 1, direction, root,
                        Appended(slide_helper(direction, lines[k], root, acc.score)))

\* Game.slide_each_row
slide_each_row(g, direction, root, sc) ==
    SlideLines([r \in 1..Len(g) |-> get_row(g, r - 1)], 1, direction, root,
               [values |-> <<>>, movement |-> <<>>, score |-> sc])

\* A column slide that forgets to transpose the per-column results back.
SlideEachColumnNoTranspose(g, direction, root, sc) ==
    SlideLines([c \in 1..Len(g) |-> get_col(g, c - 1)], 1, direction, root,
               [values |-> <<>>, movement |-> <<>>, score |-> sc])

\* Game.slide_each_column
slide_each_column(g, direction, root, sc) ==
    LET Transposed(a) == [values |-> transpose_columns(a.values),
                          movement |-> transpose_columns(a.movement),
                          score |-> a.score]
    IN  Transposed(SlideLines([c \in 1..Len(g) |-> get_col(g, c - 1)], 1, direction, root,
                              [values |-> <<>>, movement |-> <<>>, score |-> sc]))

\* Game.slide_tiles: the grid, movement matrix and score it leaves
slide_tiles(g, direction, cfg, sc) ==
    LET Written(a) == [grid |-> set_tiles(a.values, cfg.grid_size),
                       movement_matrix |-> a.movement,
                       score |-> a.score]
    IN  Written(IF direction \in {UP, DOWN}
                THEN slide_each_column(g, direction, cfg.root_tile_value, sc)
                ELSE slide_each_row(g, direction, cfg.root_tile_value, sc))

\* Game.get_empty_tiles: the empty cells among cells, in their order
RECURSIVE EmptyAmong(_, _)
EmptyAmong(g, cells) ==
    IF Len(cells) = 0 THEN <<>>
    ELSE IF GridGet(g, Head(cells)[1], Head(cells)[2]) = 0
    THEN <<Head(cells)>> \o EmptyAmong(g, Tail(cells))
    ELSE EmptyAmong(g, Tail(cells))

get_empty_tiles(g, size) == EmptyAmong(g, RowMajor(size))

\* A board_full that looks at the first row only.
BoardFullFirstRow(g, size) ==
    \A c \in 0..(size - 1) : GridGet(g, c, 0) # 0

\* Game.board_full
board_full(g, size) ==
    \A r \in 0..(size - 1) : \A c \in 0..(size - 1) : GridGet(g, c, r) # 0

\* Game.get_highest_tile
RECURSIVE HighestFrom(_, _, _)
HighestFrom(cells, g, highest) ==
    IF Len(cells) = 0 THEN highest
    ELSE LET v == GridGet(g, Head(cells)[1], Head(cells)[2])
         IN  HighestFrom(Tail(cells), g, IF v > highest THEN v ELSE highest)

get_highest_tile(g, size) == HighestFrom(RowMajor(size), g, 0)

\* A can_play that looks only at the neighbours in the same row.
CanPlayRowsOnly(g, size) ==
    \E r \in 0..(size - 1) : \E c \in 0..(size - 1) :
        \/ GridGet(g, c, r) = 0
        \/ c + 1 < size /\ GridGet(g, c + 1, r) = GridGet(g, c, r)

\* Game.can_play: the scan over the cells in row-major order, returning at the
\* first empty cell or the first cell with an equal neighbour
RECURSIVE CanPlayFrom(_, _)
CanPlayFrom(cells, g) ==
    IF Len(cells) = 0 THEN FALSE
    ELSE LET c == Head(cells)[1]
             r == Head(cells)[2]
             tile == GridGet(g, c, r)
             neighbors == get_adjacent(g, c, r)
         IN  IF tile = 0 THEN TRUE
             ELSE IF \E k \in 1..Len(neighbors) : neighbors[k] = tile THEN TRUE
             ELSE CanPlayFrom(Tail(cells), g)

can_play(g, size) == CanPlayFrom(RowMajor(size), g)

(***************************************************************************)
(* Spawning.  The two random draws of the program (random.randint for the  *)
(* cell, np.random.rand for the mutation) are nondeterministic choices, so *)
(* each method is the set of outcomes it can have.                         *)
(* mutation_probability is kept in percent: 10 is the program's 0.1.       *)
(***************************************************************************)
\* should_mutate = np.random.rand() < mutation_probability, rand() in [0, 1)
ShouldMutate(cfg) ==
    IF cfg.mutation_probability <= 0 THEN {FALSE}
    ELSE IF cfg.mutation_probability >= 100 THEN {TRUE}
    ELSE BOOLEAN

\* A _get_new_tile_value that lets mutation_at_start gate every spawn.
GetNewTileValueAlwaysGated(cfg, init) ==
    { IF cfg.mutation_at_start /\ should_mutate
      THEN cfg.root_tile_value * cfg.root_tile_value
      ELSE cfg.root_tile_value
      : should_mutate \in ShouldMutate(cfg) }

\* Game._get_new_tile_value
get_new_tile_value(cfg, init) ==
    LET root_tile_value == cfg.root_tile_value
        mutated_value == root_tile_value * root_tile_value
    IN  { IF init
          THEN (IF cfg.mutation_at_start /\ should_mutate THEN mutated_value
                ELSE root_tile_value)
          ELSE (IF ~should_mutate THEN root_tile_value ELSE mutated_value)
          : should_mutate \in ShouldMutate(cfg) }

\* Game._get_random_empty_tile: a position, or NoneLoc
get_random_empty_tile(g, cfg) ==
    LET empty_tiles == get_empty_tiles(g, cfg.grid_size)
    IN  IF empty_tiles # <<>>
        THEN { empty_tiles[random_index + 1] : random_index \in 0..(Len(empty_tiles) - 1) }
        ELSE {NoneLoc}

\* A spawn that picks any cell of the board, empty or not.
SpawnNewTileAnyCell(g, cfg, init) ==
    { [grid |-> GridSet(g, p[1], p[2], v), pos |-> p] :
        v \in get_new_tile_value(cfg, init),
        p \in { RowMajor(cfg.grid_size)[k] : k \in 1..(cfg.grid_size * cfg.grid_size) } }

\* Game._spawn_new_tile: the grid it leaves and the position it returns
spawn_new_tile(g, cfg, init) ==
    { IF new_tile_pos = NoneLoc
      THEN [grid |-> g, pos |-> NoneLoc]
      ELSE [grid |-> GridSet(g, new_tile_pos[1], new_tile_pos[2], new_tile),
            pos |-> new_tile_pos]
      : new_tile \in get_new_tile_value(cfg, init),
        new_tile_pos \in get_random_empty_tile(g, cfg) }

\* Game.spawn_new_tiles with n attempts left: stops at the first failed attempt
RECURSIVE SpawnLoop(_, _, _, _)
SpawnLoop(g, locations, n, cfg) ==
    IF n <= 0 THEN {[grid |-> g, locations |-> locations, result |-> TRUE]}
    ELSE UNION { IF o.pos = NoneLoc
                 THEN {[grid |-> o.grid, locations |-> locations, result |-> FALSE]}
                 ELSE SpawnLoop(o.grid, Append(locations, o.pos), n - 1, cfg)
                 : o \in spawn_new_tile(g, cfg, FALSE) }

\* A spawn_new_tiles that forgets the placed locations when an attempt fails.
SpawnNewTilesForgetPlaced(g, cfg) ==
    { [grid |-> o.grid, locations |-> IF o.result THEN o.locations ELSE <<>>,
       result |-> o.result]
      : o \in SpawnLoop(g, <<>>, cfg.spawn_tile_count, cfg) }

spawn_new_tiles(g, cfg) == SpawnLoop(g, <<>>, cfg.spawn_tile_count, cfg)

\* Game.initial_spawn with n attempts left: every returned position is kept,
\* None included
RECURSIVE InitialSpawnLoop(_, _, _, _)
InitialSpawnLoop(g, spawn_locations, n, cfg) ==
    IF n <= 0 THEN {[grid |-> g, locations |-> spawn_locations]}
    ELSE UNION { InitialSpawnLoop(o.grid, Append(spawn_locations, o.pos), n - 1, cfg)
                 : o \in spawn_new_tile(g, cfg, TRUE) }

\* An initial_spawn that makes one attempt fewer.
InitialSpawnOneShort(g, cfg) == InitialSpawnLoop(g, <<>>, cfg.starting_tile_count - 1, cfg)

initial_spawn(g, cfg) == InitialSpawnLoop(g, <<>>, cfg.starting_tile_count, cfg)

\* A play_turn that spawns even when the board is full after the slide.
PlayTurnAlwaysSpawn(g, direction, cfg, sc, spawn_result, spawn_locations) ==
    LET After(s) ==
          { [grid |-> o.grid, score |-> s.score, movement_matrix |-> s.movement_matrix,
             slid |-> s.grid,
             latest_spawn_result |-> PyBool(o.result),
             latest_spawn_locations |-> o.locations,
             result |-> IF ~o.result
                        THEN (IF cfg.spawn_kill THEN SPAWN_KILL ELSE SPAWN_FILL)
                        ELSE NORMAL]
            : o \in spawn_new_tiles(s.grid, cfg) }
    IN  After(slide_tiles(g, direction, cfg, sc))

\* A play_turn that reports every spawn shortfall as SPAWN_FILL.
PlayTurnNoKill(g, direction, cfg, sc, spawn_result, spawn_locations) ==
    LET After(s) ==
          IF board_full(s.grid, cfg.grid_size)
          THEN {[grid |-> s.grid, score |-> s.score, movement_matrix |-> s.movement_matrix,
                 slid |-> s.grid,
                 latest_spawn_result |-> spawn_result,
                 latest_spawn_locations |-> spawn_locations,
                 result |-> BOARD_FULL]}
          ELSE { [grid |-> o.grid, score |-> s.score, movement_matrix |-> s.movement_matrix,
                  slid |-> s.grid,
                  latest_spawn_result |-> PyBool(o.result),
                  latest_spawn_locations |-> o.locations,
                  result |-> IF ~o.result THEN SPAWN_FILL ELSE NORMAL]
                 : o \in spawn_new_tiles(s.grid, cfg) }
    IN  After(slide_tiles(g, direction, cfg, sc))

\* A play_turn that tests for a full board before the slide, not after it.
PlayTurnFullBeforeSlide(g, direction, cfg, sc, spawn_result, spawn_locations) ==
    LET After(s) ==
          IF board_full(g, cfg.grid_size)
          THEN {[grid |-> s.grid, score |-> s.score, movement_matrix |-> s.movement_matrix,
                 slid |-> s.grid,
                 latest_spawn_result |-> spawn_result,
                 latest_spawn_locations |-> spawn_locations,
                 result |-> BOARD_FULL]}
          ELSE { [grid |-> o.grid, score |-> s.score, movement_matrix |-> s.movement_matrix,
                  slid |-> s.grid,
                  latest_spawn_result |-> PyBool(o.result),
                  latest_spawn_locations |-> o.locations,
                  result |-> IF ~o.result
                             THEN (IF cfg.spawn_kill THEN SPAWN_KILL ELSE SPAWN_FILL)
                             ELSE NORMAL]
                 : o \in spawn_new_tiles(s.grid, cfg) }
    IN  After(slide_tiles(g, direction, cfg, sc))

\* A play_turn that does nothing more once a spawn has failed.
PlayTurnStopsAfterShortfall(g, direction, cfg, sc, spawn_result, spawn_locations) ==
    LET After(s) ==
          IF board_full(s.grid, cfg.grid_size)
          THEN {[grid |-> s.grid, score |-> s.score, movement_matrix |-> s.movement_matrix,
                 slid |-> s.grid,
                 latest_spawn_result |-> spawn_result,
                 latest_spawn_locations |-> spawn_locations,
                 result |-> BOARD_FULL]}
          ELSE { [grid |-> o.grid, score |-> s.score, movement_matrix |-> s.movement_matrix,
                  slid |-> s.grid,
                  latest_spawn_result |-> PyBool(o.result),
                  latest_spawn_locations |-> o.locations,
                  result |-> IF ~o.result
                             THEN (IF cfg.spawn_kill THEN SPAWN_KILL ELSE SPAWN_FILL)
                             ELSE NORMAL]
                 : o \in spawn_new_tiles(s.grid, cfg) }
    IN  IF spawn_result = "False"
        THEN {[grid |-> g, score |-> sc,
               movement_matrix |-> build_grid_with_value(0, cfg.grid_size),
               slid |-> g,
               latest_spawn_result |-> spawn_result,
               latest_spawn_locations |-> spawn_locations,
               result |-> IF cfg.spawn_kill THEN SPAWN_KILL ELSE SPAWN_FILL]}
        ELSE After(slide_tiles(g, direction, cfg, sc))

\* Game.play_turn: the states it can leave and the SlideResult it returns.
\* slid is the grid between the slide and the spawn.
play_turn(g, direction, cfg, sc, spawn_result, spawn_locations) ==
    LET After(s) ==
          IF board_full(s.grid, cfg.grid_size)
          THEN {[grid |-> s.grid, score |-> s.score, movement_matrix |-> s.movement_matrix,
                 slid |-> s.grid,
                 latest_spawn_result |-> spawn_result,
                 latest_spawn_locations |-> spawn_locations,
                 result |-> BOARD_FULL]}
          ELSE { [grid |-> o.grid, score |-> s.score, movement_matrix |-> s.movement_matrix,
                  slid |-> s.grid,
                  latest_spawn_result |-> PyBool(o.result),
                  latest_spawn_locations |-> o.locations,
                  result |-> IF ~o.result
                             THEN (IF cfg.spawn_kill THEN SPAWN_KILL ELSE SPAWN_FILL)
                             ELSE NORMAL]
                 : o \in spawn_new_tiles(s.grid, cfg) }
    IN  After(slide_tiles(g, direction, cfg, sc))

(***************************************************************************)
(* Saving and loading.  A Python position is a tuple (c, r) or None; json  *)
(* has arrays and null only, and json.loads gives a list for every array.  *)
(* Python values that json treats differently carry their type as the      *)
(* first element: <<"tuple", c, r>>, <<"list", c, r>>, <<"None">>, and     *)
(* <<"array", c, r>>, <<"null">> in a document.  Lists of numbers (grid    *)
(* rows, movement rows) are sequences on both sides.                       *)
(***************************************************************************)
\* The positions get_empty_tiles builds, (c, r), and the None of a failed attempt
PyLocation(p) == IF Len(p) = 0 THEN <<"None">> ELSE <<"tuple", p[1], p[2]>>
PyLocations(locs) == [k \in 1..Len(locs) |-> PyLocation(locs[k])]

\* json.dumps of a position and of None / True / False
DumpLocation(p) == IF p[1] \in {"tuple", "list"} THEN <<"array", p[2], p[3]>> ELSE <<"null">>
DumpResult(b) == IF b = "True" THEN "true" ELSE IF b = "False" THEN "false" ELSE "null"
\* json.loads of an array of two numbers and of null / true / false
LoadLocation(j) == IF j[1] = "array" THEN <<"list", j[2], j[3]>> ELSE <<"None">>
LoadResult(j) == IF j = "true" THEN "True" ELSE IF j = "false" THEN "False" ELSE "None"
\* a list of lists of numbers, written as arrays and read back as lists
NumberRows(m) == [r \in 1..Len(m) |-> [c \in 1..Len(m[r]) |-> m[r][c]]]

\* Game.to_dict; locations are Python positions
to_dict(cfg, g, sc, mm, spawn_result, locations) ==
    [config |-> cfg, grid |-> g, score |-> sc, movement_matrix |-> mm,
     latest_spawn_result |-> spawn_result, latest_spawn_locations |-> locations]

\* json.dumps(d) for the dict of to_dict: the document
json_dumps(d) ==
    [config |-> d.config,
     grid |-> NumberRows(d.grid),
     score |-> d.score,
     movement_matrix |-> NumberRows(d.movement_matrix),
     latest_spawn_result |-> DumpResult(d.latest_spawn_result),
     latest_spawn_locations |->
        [k \in 1..Len(d.latest_spawn_locations) |->
            DumpLocation(d.latest_spawn_locations[k])]]

\* Game.to_json
to_json(cfg, g, sc, mm, spawn_result, locations) ==
    json_dumps(to_dict(cfg, g, sc, mm, spawn_result, locations))

\* json.loads(json_string), for the keys the document has
json_loads(doc) ==
    [k \in DOMAIN doc |->
        CASE k = "grid" -> NumberRows(doc[k])
          [] k = "movement_matrix" -> NumberRows(doc[k])
          [] k = "latest_spawn_result" -> LoadResult(doc[k])
          [] k = "latest_spawn_locations" ->
                [i \in 1..Len(doc[k]) |-> LoadLocation(doc[k][i])]
          [] OTHER -> doc[k]]

\* What load gives when it raises: no game.
NoGame(exception) ==
    [raised |-> exception, config |-> <<>>, init_mode |-> FALSE, grid |-> <<>>,
     score |-> 0, movement_matrix |-> <<>>, latest_spawn_result |-> PyNone,
     latest_spawn_locations |-> <<>>]

\* game.set_tiles(new_list) on the grid g of a game of the given size: it reads
\* new_list[r][c] for every r, c below size (an IndexError when new_list has no
\* such item) and nothing else of new_list.
SetTilesReads(new_list, size) ==
    \A r \in 1..size : r <= Len(new_list) /\ size <= Len(new_list[r])
SetTilesOnto(g, new_list, size) ==
    [r \in 1..Len(g) |-> [c \in 1..Len(g) |->
        IF r <= size /\ c <= size THEN new_list[r][c] ELSE g[r][c]]]

\* GameHelper.load: the games it can return, or the exception it raises
load(doc) ==
    LET game_dict == json_loads(doc)
        Missing(k) == k \notin DOMAIN game_dict
    IN  IF Missing("config") \/ Missing("grid") THEN {NoGame("KeyError")}
        ELSE IF ~SetTilesReads(game_dict.grid, game_dict.config.grid_size)
        THEN {NoGame("IndexError")}
        ELSE IF Missing("score") \/ Missing("movement_matrix")
                \/ Missing("latest_spawn_result") \/ Missing("latest_spawn_locations")
        THEN {NoGame("KeyError")}
        ELSE { [raised |-> PyNone, config |-> game_dict.config, init_mode |-> FALSE,
                grid |-> SetTilesOnto(o.grid, game_dict.grid, game_dict.config.grid_size),
                score |-> game_dict.score,
                movement_matrix |-> game_dict.movement_matrix,
                latest_spawn_result |-> game_dict.latest_spawn_result,
                latest_spawn_locations |-> game_dict.latest_spawn_locations]
               : o \in initial_spawn(build_grid_with_value(0, game_dict.config.grid_size),
                                     game_dict.config) }

(***************************************************************************)
(* Inputs: configurations, tile values, grids and lines.                   *)
(***************************************************************************)
\* GameConfig(...), win_tile_value left at its default 2**11
GameConfig(grid_size, spawn_tile_count, starting_tile_count, mutation_probability, mutation_at_start, spawn_kill, root_tile_value) ==
    [grid_size |-> grid_size,
     spawn_tile_count |-> spawn_tile_count,
     starting_tile_count |-> starting_tile_count,
     win_tile_value |-> Pow(2, 11),
     mutation_probability |-> mutation_probability,
     mutation_at_start |-> mutation_at_start,
     spawn_kill |-> spawn_kill,
     root_tile_value |-> root_tile_value]

\* Configurations of the games that are played (1 x 1 and 2 x 2 boards).
PlayConfigs ==
    { GameConfig(2, 1, 1, 10, TRUE, FALSE, 2),
      GameConfig(2, 2, 2, 100, FALSE, TRUE, 2),
      GameConfig(2, 2, 0, 0, FALSE, FALSE, 3),
      GameConfig(1, 1, 2, 10, FALSE, TRUE, 2) }

\* Configurations of the games that run short of empty cells within a few turns.
TurnConfigs ==
    { GameConfig(2, 2, 3, 10, TRUE, FALSE, 2),
      GameConfig(2, 2, 3, 10, TRUE, TRUE, 3),
      GameConfig(2, 1, 4, 10, TRUE, TRUE, 2),
      GameConfig(1, 1, 2, 10, TRUE, FALSE, 2) }

\* Configurations of the games whose tiles are set or that start on a full
\* board, and are then played
BoardConfigs ==
    { GameConfig(2, 1, 4, 10, TRUE, TRUE, 2),
      GameConfig(2, 2, 0, 0, FALSE, FALSE, 3) }

\* Configurations with a mutation_probability outside [0, 1] (1.5 and -0.5):
\* GameConfig is a plain dataclass and Game.__init__ checks nothing, so games
\* are constructed with them.
InvalidConfigs ==
    { GameConfig(2, 2, 2, 150, TRUE, FALSE, 2),
      GameConfig(2, 1, 1, -50, TRUE, TRUE, 2) }

\* Configurations of the games whose tiles are set and slid (up to 3 x 3).
SlideConfigs ==
    { GameConfig(3, 2, 0, 10, TRUE, FALSE, 2),
      GameConfig(2, 2, 0, 0, TRUE, FALSE, 3),
      GameConfig(1, 2, 1, 0, TRUE, FALSE, 2) }

\* Configurations of the games whose _slide_helper is called on a line.
LineConfigs ==
    { GameConfig(2, 2, 0, 10, TRUE, FALSE, 1),
      GameConfig(2, 2, 0, 10, TRUE, FALSE, 2),
      GameConfig(2, 2, 0, 10, TRUE, FALSE, 3) }

TileValues(root) == {0} \cup { Pow(root, k) : k \in 1..MaxExp }
\* Boards handed to set_tiles: up to 2 x 2 from all of TileValues, larger ones
\* from empty and root tiles only (their higher tiles come from merges).
BoardValues(size, root) == IF size <= 2 THEN TileValues(root) ELSE {0, root}
Grids(size, root) == [1..size -> [1..size -> BoardValues(size, root)]]
Lines(root) == UNION { [1..n -> TileValues(root)] : n \in 1..MaxLen }

(***************************************************************************)
(* The state machine.  last records the most recent call: its name, its    *)
(* arguments and return value, and the fields of the game before it.       *)
(***************************************************************************)
NoCall ==
    [op |-> "__init__", direction |-> NONE, result |-> PyNone, raised |-> PyNone,
     grid |-> <<>>, score |-> 0, movement_matrix |-> <<>>,
     spawn_result |-> PyNone, spawn_locations |-> <<>>,
     slid |-> <<>>, prev_op |-> PyNone, prev_direction |-> NONE,
     line |-> <<>>, new_list |-> <<>>, movement |-> <<>>,
     json |-> <<>>, malformation |-> PyNone, loaded |-> <<>>, resaved |-> <<>>]

\* The fields of last that every call fills the same way.
Call(op, direction) ==
    [NoCall EXCEPT !.op = op, !.direction = direction,
                   !.grid = grid, !.score = score,
                   !.movement_matrix = movement_matrix,
                   !.spawn_result = latest_spawn_result,
                   !.spawn_locations = latest_spawn_locations,
                   !.prev_op = last.op, !.prev_direction = last.direction]

\* Game.__init__: the state after construction with a configuration of cfgs
Construct(cfgs) ==
    /\ config \in cfgs
    /\ \E o \in initial_spawn(build_grid_with_value(0, config.grid_size), config) :
        /\ grid = o.grid
        /\ latest_spawn_locations = o.locations
    /\ init_mode = FALSE
    /\ score = 0
    /\ movement_matrix = build_grid_with_value(0, config.grid_size)
    /\ latest_spawn_result = PyNone
    /\ last = NoCall
    /\ turns = 0

\* game.set_tiles(new_list), right after construction as the tests do
SetTiles ==
    /\ turns = 0
    /\ \E new_list \in Grids(config.grid_size, config.root_tile_value) :
        /\ grid' = set_tiles(new_list, config.grid_size)
        /\ last' = [Call("set_tiles", NONE) EXCEPT !.slid = grid']
    /\ turns' = turns + 1
    /\ UNCHANGED <<config, init_mode, score, movement_matrix,
                   latest_spawn_result, latest_spawn_locations>>

\* game.slide_tiles(direction); Bound is the number of calls made at most
SlideTilesWithin(Bound) ==
    /\ turns < Bound
    /\ \E direction \in SlideDirection :
        \E s \in {slide_tiles(grid, direction, config, score)} :
            /\ grid' = s.grid
            /\ score' = s.score
            /\ movement_matrix' = s.movement_matrix
            /\ last' = [Call("slide_tiles", direction) EXCEPT !.slid = s.grid]
    /\ turns' = turns + 1
    /\ UNCHANGED <<config, init_mode, latest_spawn_result, latest_spawn_locations>>

SlideTiles == SlideTilesWithin(MaxTurns)
SlideOnly == SlideTilesWithin(MaxSlides + 1)

\* game.play_turn(direction)
PlayTurn ==
    /\ turns < MaxTurns
    /\ \E direction \in SlideDirection :
        \E o \in play_turn(grid, direction, config, score,
                           latest_spawn_result, latest_spawn_locations) :
            /\ grid' = o.grid
            /\ score' = o.score
            /\ movement_matrix' = o.movement_matrix
            /\ latest_spawn_result' = o.latest_spawn_result
            /\ latest_spawn_locations' = o.latest_spawn_locations
            /\ last' = [Call("play_turn", direction) EXCEPT !.slid = o.slid,
                                                            !.result = o.result]
    /\ turns' = turns + 1
    /\ UNCHANGED <<config, init_mode>>

\* game.spawn_new_tiles()
SpawnNewTiles ==
    /\ turns < MaxTurns
    /\ \E o \in spawn_new_tiles(grid, config) :
        /\ grid' = o.grid
        /\ latest_spawn_locations' = o.locations
        /\ last' = [Call("spawn_new_tiles", NONE) EXCEPT !.slid = grid,
                                                         !.result = PyBool(o.result)]
    /\ turns' = turns + 1
    /\ UNCHANGED <<config, init_mode, score, movement_matrix, latest_spawn_result>>

\* game._slide_helper(direction, row_o_col) on a line handed in directly
SlideHelperCall ==
    /\ turns < 1
    /\ \E direction \in SlideDirection :
        \E row_o_col \in Lines(config.root_tile_value) :
            \E h \in {slide_helper(direction, row_o_col, config.root_tile_value, score)} :
                /\ score' = h.score
                /\ last' = [Call("_slide_helper", direction) EXCEPT
                                !.slid = grid, !.line = row_o_col,
                                !.new_list = h.new_list, !.movement = h.movement]
    /\ turns' = turns + 1
    /\ UNCHANGED <<config, init_mode, grid, movement_matrix,
                   latest_spawn_result, latest_spawn_locations>>

\* Games that are constructed, have their tiles set, and are played.
\* Persisted states that are not ones to_json writes, made from one it wrote:
\* a grid one row and column larger, one smaller, a negative tile value, no
\* score field, a negative score.
Malformations ==
    {"larger_grid", "smaller_grid", "negative_tile", "missing_score", "negative_score"}
WithField(doc, field, v) == [k \in DOMAIN doc |-> IF k = field THEN v ELSE doc[k]]
Malform(doc, m) ==
    LET n == Len(doc.grid)
        root == doc.config.root_tile_value
    IN  CASE m = "larger_grid" ->
               WithField(doc, "grid", [r \in 1..(n + 1) |-> [c \in 1..(n + 1) |->
                   IF r <= n /\ c <= n THEN doc.grid[r][c] ELSE root]])
          [] m = "smaller_grid" ->
               WithField(doc, "grid", [r \in 1..(n - 1) |-> [c \in 1..(n - 1) |->
                   doc.grid[r][c]]])
          [] m = "negative_tile" ->
               WithField(doc, "grid", [r \in 1..n |-> [c \in 1..n |->
                   IF r = 1 /\ c = 1 THEN -root ELSE doc.grid[r][c]]])
          [] m = "missing_score" -> [k \in DOMAIN doc \ {"score"} |-> doc[k]]
          [] OTHER -> WithField(doc, "score", -1 - doc.score)

\* The document game.to_json() writes for the game of the current state.
Saved ==
    to_json(config, grid, score, movement_matrix, latest_spawn_result,
            PyLocations(latest_spawn_locations))

\* to_json() of the game that load returned
Resaved(o) ==
    IF o.raised = PyNone
    THEN to_json(o.config, o.grid, o.score, o.movement_matrix,
                 o.latest_spawn_result, o.latest_spawn_locations)
    ELSE <<>>

\* GameHelper.load(doc): the game it is called for stays as it is
LoadDocument(doc, m) ==
    /\ \E o \in load(doc) :
        last' = [Call("load", NONE) EXCEPT !.json = doc, !.malformation = m,
                                           !.loaded = o, !.resaved = Resaved(o)]
    /\ turns' = turns + 1
    /\ UNCHANGED <<config, init_mode, grid, score, movement_matrix,
                   latest_spawn_result, latest_spawn_locations>>

\* loaded = GameHelper.load(game.to_json())
SaveAndLoad ==
    /\ turns < MaxTurns
    /\ LoadDocument(Saved, PyNone)

\* GameHelper.load of a persisted state that is malformed
LoadMalformed ==
    /\ turns < MaxTurns
    /\ \E m \in Malformations : LoadDocument(Malform(Saved, m), m)

Init == Construct(PlayConfigs)
Next == SetTiles \/ SlideTiles \/ PlayTurn \/ SpawnNewTiles
Spec == Init /\ [][Next]_vars

\* Games that are constructed, have their tiles set, and are slid.
InitSlide == Construct(SlideConfigs)
NextSlide == SetTiles \/ SlideOnly
SpecSlide == InitSlide /\ [][NextSlide]_vars

\* Games on which _slide_helper is called once with a line.
InitLine == Construct(LineConfigs)
NextLine == SlideHelperCall
SpecLine == InitLine /\ [][NextLine]_vars

\* Games that are played turn after turn from construction
InitTurns == Construct(TurnConfigs)
NextTurns == PlayTurn
SpecTurns == InitTurns /\ [][NextTurns]_vars

\* Games whose tiles are set and that are then played turn after turn
InitBoards == Construct(BoardConfigs)
NextBoards == SetTiles \/ PlayTurn
SpecBoards == InitBoards /\ [][NextBoards]_vars

\* Games constructed with an invalid configuration, and played
InitInvalid == Construct(InvalidConfigs)
NextInvalid == PlayTurn
SpecInvalid == InitInvalid /\ [][NextInvalid]_vars

\* Games that are set up, played, saved and loaded
InitSave == Construct(PlayConfigs)
NextSave == SetTiles \/ PlayTurn \/ SaveAndLoad \/ LoadMalformed
SpecSave == InitSave /\ [][NextSave]_vars

(***************************************************************************)
(* Reference definitions the properties are stated against.                *)
(***************************************************************************)
RECURSIVE NonZero(_)
NonZero(l) ==
    IF Len(l) = 0 THEN <<>>
    ELSE IF Head(l) # 0 THEN <<Head(l)>> \o NonZero(Tail(l))
    ELSE NonZero(Tail(l))
CountNonZero(g) == SumSeq([r \in 1..Len(g) |-> Len(NonZero(g[r]))])
ZeroMatrix(size) == [r \in 1..size |-> [c \in 1..size |-> 0]]

\* Classic 2048 on the packed tiles: scanning from the front, two equal
\* neighbours become one tile of value * root, which is not merged again.
RECURSIVE MergePairs(_, _)
MergePairs(s, root) ==
    IF Len(s) < 2 THEN s
    ELSE IF s[1] = s[2]
    THEN <<s[1] * root>> \o MergePairs(SubSeq(s, 3, Len(s)), root)
    ELSE <<s[1]>> \o MergePairs(Tail(s), root)

Reference2048(l, root) ==
    LET m == MergePairs(NonZero(l), root)
    IN  m \o Zeros(Len(l) - Len(m))

\* The merges of that scan: the values of the tiles that merge into their
\* front neighbour, in order.
RECURSIVE MergedValues(_)
MergedValues(s) ==
    IF Len(s) < 2 THEN <<>>
    ELSE IF s[1] = s[2] THEN <<s[2]>> \o MergedValues(SubSeq(s, 3, Len(s)))
    ELSE MergedValues(Tail(s))

(***************************************************************************)
(* C1.  Sliding a line toward index 0 (LEFT / UP) with _slide_helper gives *)
(* the classic 2048 result: the non-zero values in order, each pair of     *)
(* equal neighbours merged once into value * root_tile_value, padded with  *)
(* zeros to the length of the line.                                        *)
(***************************************************************************)
C1_SlideMatchesReference ==
    (last.op = "_slide_helper" /\ last.direction \in {LEFT, UP})
        => last.new_list = Reference2048(last.line, config.root_tile_value)

\* [2,2,4,2] slid left: the trailing tiles cannot merge into the merged 4.
C1_Witness ==
    /\ last.op = "_slide_helper"
    /\ last.direction = LEFT
    /\ last.line = <<2, 2, 4, 2>>
    /\ last.new_list = <<4, 4, 2, 0>>

(***************************************************************************)
(* C8.  Sliding RIGHT / DOWN is the mirror of sliding LEFT / UP on the     *)
(* reversed line: the result is the reverse of the LEFT result on the      *)
(* reversed line, the movement is that LEFT movement reversed and negated, *)
(* and the score grows by the same amount.                                 *)
(***************************************************************************)
C8_RightMirrorsLeft ==
    (last.op = "_slide_helper" /\ last.direction \in {RIGHT, DOWN}) =>
        \A toward0 \in {LEFT, UP} :
            LET m == slide_helper(toward0, Reverse(last.line),
                                  config.root_tile_value, last.score)
            IN  /\ last.new_list = Reverse(m.new_list)
                /\ last.movement = [k \in 1..Len(last.line) |-> -Reverse(m.movement)[k]]
                /\ score - last.score = m.score - last.score

\* [2,2,2,0] slid right: the merge happens at the right end.
C8_Witness ==
    /\ last.op = "_slide_helper"
    /\ last.direction = RIGHT
    /\ last.line = <<2, 2, 2, 0>>
    /\ last.new_list = <<0, 0, 2, 4>>
    /\ last.movement = <<2, 2, 1, 0>>
    /\ score = last.score + 4

(***************************************************************************)
(* More reference definitions: cells and lines of a board.                 *)
(***************************************************************************)
Cells(size) == (0..(size - 1)) \X (0..(size - 1))
EmptyCells(g) == { p \in Cells(Len(g)) : g[p[2] + 1][p[1] + 1] = 0 }
Min(a, b) == IF a < b THEN a ELSE b
Transpose(m) == [i \in 1..Len(m) |-> [j \in 1..Len(m) |-> m[j][i]]]

\* The lines of g along a direction, each read from the end the tiles slide to.
LinesToward(g, direction) ==
    LET rows == IF direction \in {LEFT, RIGHT} THEN g ELSE Transpose(g)
    IN  [k \in 1..Len(g) |->
            IF direction \in {RIGHT, DOWN} THEN Reverse(rows[k]) ELSE rows[k]]

\* Two equal tiles next to each other in a line along the direction.
EqualNeighboursAlong(g, direction) ==
    \E k \in 1..Len(g) : \E i \in 1..(Len(g) - 1) :
        LET line == LinesToward(g, direction)[k]
        IN  line[i] # 0 /\ line[i] = line[i + 1]

\* Two equal tiles in 4-directionally adjacent cells.
EqualNeighbours(g) == EqualNeighboursAlong(g, LEFT) \/ EqualNeighboursAlong(g, UP)

(***************************************************************************)
(* C2.  play_turn returns BOARD_FULL exactly when the grid has no empty    *)
(* cell after the slide, and then nothing is spawned: the grid is the      *)
(* slide result and latest_spawn_result and latest_spawn_locations are the *)
(* ones from before the call.                                              *)
(***************************************************************************)
C2_BoardFullIffNoEmptyAfterSlide ==
    last.op = "play_turn" =>
        LET slid == slide_tiles(last.grid, last.direction, config, last.score).grid
        IN  /\ (last.result = BOARD_FULL) <=> (EmptyCells(slid) = {})
            /\ last.result = BOARD_FULL =>
                /\ grid = slid
                /\ latest_spawn_result = last.spawn_result
                /\ latest_spawn_locations = last.spawn_locations

\* A BOARD_FULL turn after a turn that spawned: the spawn record is the old one.
C2_Witness ==
    /\ last.op = "play_turn"
    /\ last.result = BOARD_FULL
    /\ last.prev_op = "play_turn"
    /\ latest_spawn_result = "True"
    /\ latest_spawn_locations # <<>>
    /\ EmptyCells(grid) = {}

(***************************************************************************)
(* C3.  When the grid has an empty cell after the slide, play_turn makes   *)
(* spawn_tile_count spawn attempts and returns NORMAL exactly when all are *)
(* placed (empty cells >= spawn_tile_count), with latest_spawn_result true *)
(* and spawn_tile_count locations; otherwise it returns SPAWN_KILL if      *)
(* config.spawn_kill and SPAWN_FILL if not, with latest_spawn_result false.*)
(***************************************************************************)
C3_SpawnOutcome ==
    (last.op = "play_turn" /\ EmptyCells(last.slid) # {}) =>
        LET e == Cardinality(EmptyCells(last.slid))
            n == config.spawn_tile_count
        IN  /\ (last.result = NORMAL) <=> (e >= n)
            /\ CountNonZero(grid) = CountNonZero(last.slid) + Min(e, n)
            /\ last.result = NORMAL =>
                /\ latest_spawn_result = "True"
                /\ Len(latest_spawn_locations) = n
            /\ last.result # NORMAL =>
                /\ last.result = (IF config.spawn_kill THEN SPAWN_KILL ELSE SPAWN_FILL)
                /\ latest_spawn_result = "False"

\* A slide that moved nothing, one empty cell, two tiles to spawn, spawn_kill set.
C3_Witness ==
    /\ last.op = "play_turn"
    /\ last.result = SPAWN_KILL
    /\ config.spawn_tile_count = 2
    /\ Cardinality(EmptyCells(last.slid)) = 1
    /\ movement_matrix = ZeroMatrix(config.grid_size)
    /\ Len(latest_spawn_locations) = 1
    /\ latest_spawn_result = "False"

(***************************************************************************)
(* C4.  slide_tiles adds to the score exactly the sum over the merges of   *)
(* (merging tile's value * root_tile_value) and lowers the number of       *)
(* non-zero tiles by exactly the number of merges; without a merge both    *)
(* stay as they were.                                                      *)
(***************************************************************************)
C4_ScoreAndCountByMerges ==
    last.op = "slide_tiles" =>
        LET lines == LinesToward(last.grid, last.direction)
            merged == [k \in 1..Len(lines) |-> MergedValues(NonZero(lines[k]))]
            gain == SumSeq([k \in 1..Len(lines) |->
                               SumSeq([i \in 1..Len(merged[k]) |->
                                          merged[k][i] * config.root_tile_value])])
            merges == SumSeq([k \in 1..Len(lines) |-> Len(merged[k])])
        IN  /\ score = last.score + gain
            /\ CountNonZero(grid) = CountNonZero(last.grid) - merges
            /\ merges = 0 => (score = last.score
                              /\ CountNonZero(grid) = CountNonZero(last.grid))

\* Three rows [2,2,2] slid left: three merges, 4 + 4 + 4 added to the score.
C4_Witness ==
    /\ last.op = "slide_tiles"
    /\ last.direction = LEFT
    /\ last.grid = << <<2, 2, 2>>, <<2, 2, 2>>, <<2, 2, 2>> >>
    /\ grid = << <<4, 2, 0>>, <<4, 2, 0>>, <<4, 2, 0>> >>
    /\ score = last.score + 12

(***************************************************************************)
(* C5.  can_play() is true if and only if some cell is empty or some cell  *)
(* has a 4-directionally adjacent cell of equal value.                     *)
(***************************************************************************)
C5_CanPlayIffEmptyOrEqualNeighbour ==
    can_play(grid, config.grid_size) <=> (EmptyCells(grid) # {} \/ EqualNeighbours(grid))

\* A full board with no two equal neighbours: can_play() is false.
C5_Witness ==
    /\ grid = << <<2, 4>>, <<4, 2>> >>
    /\ ~can_play(grid, config.grid_size)

(***************************************************************************)
(* C6.  As stated:  slide_tiles(D) called twice in a row gives, on the     *)
(* second call, the grid the first call produced and an all-zero movement  *)
(* matrix.                                                                 *)
(***************************************************************************)
TwiceInARow ==
    /\ last.op = "slide_tiles"
    /\ last.prev_op = "slide_tiles"
    /\ last.prev_direction = last.direction

C6_SecondSlideChangesNothing ==
    TwiceInARow =>
        /\ grid = last.grid
        /\ movement_matrix = ZeroMatrix(config.grid_size)

(***************************************************************************)
(* C6, amended.  slide_tiles(D) called twice in a row gives, on the second *)
(* call, the grid the first call produced and an all-zero movement matrix  *)
(* exactly when the first call left no two equal tiles next to each other  *)
(* along D (such a pair is left where a merge closed a slot).              *)
(***************************************************************************)
C6_SecondSlideChangesNothingUnlessEqualNeighbours ==
    TwiceInARow =>
        ((grid = last.grid /\ movement_matrix = ZeroMatrix(config.grid_size))
            <=> ~EqualNeighboursAlong(last.grid, last.direction))

\* A second slide that changes nothing, after merges (the score is not 0) left
\* no equal neighbours along the direction.
C6_Witness ==
    /\ TwiceInARow
    /\ score > 0
    /\ CountNonZero(grid) >= 3
    /\ ~EqualNeighboursAlong(last.grid, last.direction)
    /\ grid = last.grid
    /\ movement_matrix = ZeroMatrix(config.grid_size)

(***************************************************************************)
(* C7.  If slide_tiles(D) moves no cell (its movement matrix is all zero)  *)
(* the grid and the score are as before the call, and a further            *)
(* slide_tiles(D) again gives an all-zero movement matrix and leaves grid  *)
(* and score unchanged; a full grid with no two equal neighbours is left   *)
(* unchanged by a slide in each of the four directions.                    *)
(***************************************************************************)
C7_NoMoveSlideChangesNothing ==
    /\ (last.op = "slide_tiles" /\ movement_matrix = ZeroMatrix(config.grid_size)) =>
        /\ grid = last.grid
        /\ score = last.score
        /\ \E s \in {slide_tiles(grid, last.direction, config, score)} :
            /\ s.grid = grid
            /\ s.score = score
            /\ s.movement_matrix = ZeroMatrix(config.grid_size)
    /\ (TwiceInARow /\ last.movement_matrix = ZeroMatrix(config.grid_size)) =>
        /\ grid = last.grid
        /\ score = last.score
        /\ movement_matrix = ZeroMatrix(config.grid_size)
    /\ (last.op = "slide_tiles" /\ EmptyCells(last.grid) = {}
            /\ ~EqualNeighbours(last.grid)) =>
        /\ grid = last.grid
        /\ score = last.score
        /\ movement_matrix = ZeroMatrix(config.grid_size)

\* The third slide in one direction, the second having moved nothing, of a
\* board that is not full.
C7_Witness ==
    /\ TwiceInARow
    /\ last.movement_matrix = ZeroMatrix(config.grid_size)
    /\ movement_matrix = ZeroMatrix(config.grid_size)
    /\ CountNonZero(grid) >= 2
    /\ EmptyCells(grid) # {}
    /\ score > 0

(***************************************************************************)
(* C9.  slide_tiles(UP) (DOWN) gives the transpose of what slide_tiles     *)
(* (LEFT) (RIGHT) gives on the transposed grid, for the grid and for the   *)
(* movement matrix; the movement matrix is indexed [row][column] of the    *)
(* tile's original cell and holds its row displacement.                    *)
(***************************************************************************)
C9_ColumnSlideIsTransposedRowSlide ==
    (last.op = "slide_tiles" /\ last.direction \in {UP, DOWN}) =>
        /\ \E t \in {slide_tiles(Transpose(last.grid),
                                 IF last.direction = UP THEN LEFT ELSE RIGHT,
                                 config, last.score)} :
            /\ grid = Transpose(t.grid)
            /\ movement_matrix = Transpose(t.movement_matrix)
            /\ score = t.score
        /\ \A p \in Cells(config.grid_size) :
            LET r == p[2] + 1
                c == p[1] + 1
                d == movement_matrix[r][c]
            IN  IF last.grid[r][c] = 0 THEN d = 0
                ELSE /\ r + d \in 1..config.grid_size
                     /\ IF last.direction = UP THEN d <= 0 ELSE d >= 0
                     /\ grid[r + d][c] \in {last.grid[r][c],
                                            last.grid[r][c] * config.root_tile_value}

\* Sliding UP moves the tile at row 2, column 0 of a 3 x 3 board to row 0: its
\* offset -2 is stored at [2][0] of the movement matrix.
C9_Witness ==
    /\ last.op = "slide_tiles"
    /\ last.direction = UP
    /\ last.grid = << <<0, 2, 2>>, <<0, 0, 2>>, <<2, 0, 0>> >>
    /\ grid = << <<2, 2, 4>>, <<0, 0, 0>>, <<0, 0, 0>> >>
    /\ movement_matrix = << <<0, 0, 0>>, <<0, 0, -1>>, <<-2, 0, 0>> >>

(***************************************************************************)
(* C10.  A spawn attempt writes only to a cell that was empty before it    *)
(* and changes no other cell, so a successful attempt adds exactly one     *)
(* non-empty cell; with no empty cell the attempt fails and the grid stays *)
(* as it is.  This holds for the attempts of construction, spawn_new_tiles *)
(* and play_turn.                                                          *)
(***************************************************************************)
\* What one attempt may do to a board g, leaving o.grid and returning o.pos.
AttemptOk(g, o) ==
    IF EmptyCells(g) = {}
    THEN o.pos = NoneLoc /\ o.grid = g
    ELSE /\ o.pos \in EmptyCells(g)
         /\ GridGet(o.grid, o.pos[1], o.pos[2]) # 0
         /\ \A p \in Cells(Len(g)) \ {o.pos} :
                GridGet(o.grid, p[1], p[2]) = GridGet(g, p[1], p[2])
         /\ CountNonZero(o.grid) = CountNonZero(g) + 1

\* What a run of attempts that placed tiles at locs may have done to before.
PlacedOnEmpty(before, after, locs) ==
    /\ \A k \in 1..Len(locs) : locs[k] \in EmptyCells(before)
    /\ \A j, k \in 1..Len(locs) : j # k => locs[j] # locs[k]
    /\ \A p \in Cells(Len(before)) :
        IF \E k \in 1..Len(locs) : locs[k] = p
        THEN GridGet(after, p[1], p[2]) # 0
        ELSE GridGet(after, p[1], p[2]) = GridGet(before, p[1], p[2])
    /\ CountNonZero(after) = CountNonZero(before) + Len(locs)

\* The locations of a list that are not None.
RECURSIVE Placed(_)
Placed(locs) ==
    IF Len(locs) = 0 THEN <<>>
    ELSE IF Head(locs) = NoneLoc THEN Placed(Tail(locs))
    ELSE <<Head(locs)>> \o Placed(Tail(locs))

C10_SpawnOnlyOnEmptyCells ==
    /\ \A init \in BOOLEAN : \A o \in spawn_new_tile(grid, config, init) :
        AttemptOk(grid, o)
    /\ last.op = "__init__" =>
        PlacedOnEmpty(build_grid_with_value(0, config.grid_size), grid,
                      Placed(latest_spawn_locations))
    /\ last.op = "spawn_new_tiles" =>
        /\ PlacedOnEmpty(last.grid, grid, latest_spawn_locations)
        /\ EmptyCells(last.grid) = {} => (last.result = "False" /\ grid = last.grid)
    /\ (last.op = "play_turn" /\ last.result # BOARD_FULL) =>
        PlacedOnEmpty(last.slid, grid, latest_spawn_locations)

\* spawn_new_tiles called again on a board that is full: it fails and the
\* board stays full and unchanged.
C10_Witness ==
    /\ last.op = "spawn_new_tiles"
    /\ last.prev_op = "spawn_new_tiles"
    /\ config.spawn_tile_count > 0
    /\ EmptyCells(last.grid) = {}
    /\ last.result = "False"
    /\ grid = last.grid

(***************************************************************************)
(* C11.  spawn_new_tiles called with e empty cells: when e is less than    *)
(* spawn_tile_count it places e tiles, returns false, and                  *)
(* latest_spawn_locations lists exactly the e cells placed before the      *)
(* failed attempt; otherwise it places spawn_tile_count tiles and returns  *)
(* true.                                                                   *)
(***************************************************************************)
C11_SpawnShortfall ==
    last.op = "spawn_new_tiles" =>
        LET e == Cardinality(EmptyCells(last.grid))
            n == config.spawn_tile_count
            placed == { p \in Cells(config.grid_size) :
                          GridGet(grid, p[1], p[2]) # GridGet(last.grid, p[1], p[2]) }
            listed == { latest_spawn_locations[k] : k \in 1..Len(latest_spawn_locations) }
        IN  /\ listed = placed
            /\ Cardinality(listed) = Len(latest_spawn_locations)
            /\ placed \subseteq EmptyCells(last.grid)
            /\ IF e < n
               THEN /\ last.result = "False"
                    /\ Cardinality(placed) = e
                    /\ EmptyCells(grid) = {}
               ELSE /\ last.result = "True"
                    /\ Cardinality(placed) = n

\* Two tiles asked for with one empty cell: one is placed and listed.
C11_Witness ==
    /\ last.op = "spawn_new_tiles"
    /\ config.spawn_tile_count = 2
    /\ Cardinality(EmptyCells(last.grid)) = 1
    /\ last.result = "False"
    /\ Len(latest_spawn_locations) = 1
    /\ latest_spawn_locations[1] \in EmptyCells(last.grid)
    /\ EmptyCells(grid) = {}

(***************************************************************************)
(* C12.  GameHelper.load(game.to_json()) gives a game with the same        *)
(* config, grid, score, movement_matrix, latest_spawn_result and           *)
(* latest_spawn_locations as the game saved, and saving the loaded game    *)
(* gives the document of the original save.                                *)
(***************************************************************************)
C12_LoadReproducesState ==
    (last.op = "load" /\ last.malformation = PyNone) =>
        /\ last.loaded.raised = PyNone
        /\ last.loaded.config = config
        /\ last.loaded.grid = grid
        /\ last.loaded.score = score
        /\ last.loaded.movement_matrix = movement_matrix
        /\ last.loaded.latest_spawn_result = latest_spawn_result
        /\ last.loaded.latest_spawn_locations = PyLocations(latest_spawn_locations)
        /\ last.resaved = last.json

(***************************************************************************)
(* C13.  As stated:  right after construction the grid holds exactly       *)
(* starting_tile_count non-empty tiles, score is 0, the movement matrix is *)
(* all zero and init_mode is false; init_mode is false after every later   *)
(* call.                                                                   *)
(***************************************************************************)
C13_StartsWithStartingTileCount ==
    /\ init_mode = FALSE
    /\ last.op = "__init__" =>
        /\ CountNonZero(grid) = config.starting_tile_count
        /\ score = 0
        /\ movement_matrix = ZeroMatrix(config.grid_size)

(***************************************************************************)
(* C13, amended.  Right after construction the grid holds                  *)
(* min(starting_tile_count, grid_size * grid_size) non-empty tiles, one    *)
(* per attempt that found an empty cell (the other attempts are None in    *)
(* latest_spawn_locations); score, movement matrix and init_mode are as    *)
(* stated.                                                                 *)
(***************************************************************************)
C13_StartsWithTilesThatFit ==
    /\ init_mode = FALSE
    /\ last.op = "__init__" =>
        /\ CountNonZero(grid) =
              Min(config.starting_tile_count, config.grid_size * config.grid_size)
        /\ Len(latest_spawn_locations) = config.starting_tile_count
        /\ Len(Placed(latest_spawn_locations)) = CountNonZero(grid)
        /\ score = 0
        /\ movement_matrix = ZeroMatrix(config.grid_size)

\* A 1 x 1 game asked to start with two tiles: one is placed.
C13_Witness ==
    /\ last.op = "__init__"
    /\ config.grid_size = 1
    /\ config.starting_tile_count = 2
    /\ CountNonZero(grid) = 1
    /\ latest_spawn_locations = << <<0, 0>>, NoneLoc >>
    /\ init_mode = FALSE

\* The values the grid holds at the positions of a list.
SpawnedValues(locs) ==
    { GridGet(grid, locs[k][1], locs[k][2]) : k \in 1..Len(locs) }

(***************************************************************************)
(* C14.  A spawned tile has value root_tile_value or its square.  A tile   *)
(* of the initial spawn can be the square exactly when mutation_at_start   *)
(* is true and mutation_probability > 0; a tile spawned after construction *)
(* can be the square exactly when mutation_probability > 0, whatever       *)
(* mutation_at_start is.                                                   *)
(***************************************************************************)
C14_SpawnedTileValues ==
    LET root == config.root_tile_value
        square == root * root
        p == config.mutation_probability
    IN  /\ \A init \in BOOLEAN : get_new_tile_value(config, init) \subseteq {root, square}
        /\ square \in get_new_tile_value(config, TRUE)
              <=> (config.mutation_at_start /\ p > 0)
        /\ square \in get_new_tile_value(config, FALSE) <=> p > 0
        /\ last.op = "__init__" =>
            /\ SpawnedValues(Placed(latest_spawn_locations)) \subseteq {root, square}
            /\ square \in SpawnedValues(Placed(latest_spawn_locations))
                  => (config.mutation_at_start /\ p > 0)
        /\ (last.op = "spawn_new_tiles"
                \/ (last.op = "play_turn" /\ last.result # BOARD_FULL)) =>
            /\ SpawnedValues(latest_spawn_locations) \subseteq {root, square}
            /\ square \in SpawnedValues(latest_spawn_locations) => p > 0

\* A squared tile spawned by a turn of a game whose initial spawn may not mutate.
C14_Witness ==
    /\ last.op = "play_turn"
    /\ last.result = NORMAL
    /\ ~config.mutation_at_start
    /\ config.mutation_probability > 0
    /\ config.root_tile_value * config.root_tile_value
          \in SpawnedValues(latest_spawn_locations)

\* The source positions (1-based) of the tiles of last.line that the slide
\* moved to position d of the result.
SourcesOf(d) ==
    { i \in 1..Len(last.line) : last.line[i] # 0 /\ i + last.movement[i] = d }
\* Position d of the result was produced by a merge of this slide.
MergedAt(d) == Cardinality(SourcesOf(d)) = 2

(***************************************************************************)
(* C15.  In the result of sliding a line, two adjacent cells hold equal    *)
(* non-zero values only if at least one of them was produced by a merge of *)
(* this slide.                                                             *)
(***************************************************************************)
C15_EqualNeighboursOnlyAfterMerge ==
    last.op = "_slide_helper" =>
        \A d \in 1..(Len(last.new_list) - 1) :
            (last.new_list[d] # 0 /\ last.new_list[d] = last.new_list[d + 1])
                => (MergedAt(d) \/ MergedAt(d + 1))

\* [2,2,2,2] slid left gives [4,4,0,0]: both 4s are merges.
C15_Witness ==
    /\ last.op = "_slide_helper"
    /\ last.direction = LEFT
    /\ last.line = <<2, 2, 2, 2>>
    /\ last.new_list = <<4, 4, 0, 0>>
    /\ MergedAt(1)
    /\ MergedAt(2)

\* What a turn does apart from the spawn bookkeeping it leaves alone when the
\* board is full.
TurnOutcome(o) ==
    [grid |-> o.grid, score |-> o.score, movement_matrix |-> o.movement_matrix,
     slid |-> o.slid, result |-> o.result,
     spawned |-> IF o.result = BOARD_FULL THEN <<>> ELSE o.latest_spawn_locations,
     spawn_result |-> IF o.result = BOARD_FULL THEN PyNone ELSE o.latest_spawn_result]

(***************************************************************************)
(* C16.  What play_turn does depends on the grid, the config and the       *)
(* direction only: whatever the earlier turns returned, it slides, applies *)
(* the same spawn rule as the first turn of a game would on this grid, and *)
(* makes spawn_tile_count attempts, placing min(empty cells after the      *)
(* slide, spawn_tile_count) tiles.                                         *)
(***************************************************************************)
C16_TurnIgnoresEarlierResults ==
    last.op = "play_turn" =>
        LET here == [grid |-> grid, score |-> score, movement_matrix |-> movement_matrix,
                     slid |-> last.slid, result |-> last.result,
                     latest_spawn_locations |-> latest_spawn_locations,
                     latest_spawn_result |-> latest_spawn_result]
            fresh == { TurnOutcome(o) :
                         o \in play_turn(last.grid, last.direction, config, last.score,
                                         PyNone, <<>>) }
            now == { TurnOutcome(o) :
                         o \in play_turn(last.grid, last.direction, config, last.score,
                                         last.spawn_result, last.spawn_locations) }
        IN  /\ now = fresh
            /\ TurnOutcome(here) \in fresh
            /\ last.slid = slide_tiles(last.grid, last.direction, config, last.score).grid
            /\ last.result # BOARD_FULL =>
                  Len(latest_spawn_locations) =
                      Min(Cardinality(EmptyCells(last.slid)), config.spawn_tile_count)

\* A turn after a turn whose spawn fell short: it slides, merges and spawns
\* spawn_tile_count tiles.
C16_Witness ==
    /\ last.op = "play_turn"
    /\ last.prev_op = "play_turn"
    /\ last.spawn_result = "False"
    /\ Len(last.spawn_locations) < config.spawn_tile_count
    /\ last.result = NORMAL
    /\ last.slid # last.grid
    /\ Len(latest_spawn_locations) = config.spawn_tile_count

\* The configurations the specification calls valid.
ValidConfig(cfg) ==
    /\ cfg.grid_size >= 1
    /\ cfg.spawn_tile_count >= 0
    /\ cfg.starting_tile_count >= 0
    /\ cfg.mutation_probability >= 0
    /\ cfg.mutation_probability <= 100

(***************************************************************************)
(* C17.  Constructing a Game with an invalid configuration fails with a    *)
(* configuration-validation error and produces no game: no state of a game *)
(* has an invalid config unless its construction raised.                   *)
(***************************************************************************)
C17_InvalidConfigRejected ==
    ~ValidConfig(config) => (last.op = "__init__" /\ last.raised # PyNone)

\* A persisted state as to_json writes it for a game of its config: every
\* field present, grid and movement matrix grid_size x grid_size, tile values
\* and score not negative.
WellFormed(doc) ==
    /\ {"config", "grid", "score", "movement_matrix", "latest_spawn_result",
        "latest_spawn_locations"} \subseteq DOMAIN doc
    /\ Len(doc.grid) = doc.config.grid_size
    /\ \A r \in 1..Len(doc.grid) :
        /\ Len(doc.grid[r]) = doc.config.grid_size
        /\ \A c \in 1..Len(doc.grid[r]) : doc.grid[r][c] >= 0
    /\ Len(doc.movement_matrix) = doc.config.grid_size
    /\ doc.score >= 0

(***************************************************************************)
(* C18.  GameHelper.load of a malformed persisted state (a grid that is    *)
(* not grid_size x grid_size, a missing field, a negative tile value or    *)
(* score) fails with an error and returns no game.                         *)
(***************************************************************************)
C18_MalformedStateRejected ==
    (last.op = "load" /\ ~WellFormed(last.json)) => last.loaded.raised # PyNone

(***************************************************************************)
(* C19.  The movement vector of _slide_helper fits its result: an empty    *)
(* position has offset 0; a tile at i goes to d = i + movement[i], a       *)
(* position of the line, not after i for LEFT / UP and not before i for    *)
(* RIGHT / DOWN; destinations keep the order of the tiles; at most two     *)
(* tiles share a destination; the result holds the tile's value where one  *)
(* tile goes and value * root_tile_value where two equal tiles go; every   *)
(* non-zero cell of the result is the destination of a tile.               *)
(***************************************************************************)
C19_MovementFitsResult ==
    last.op = "_slide_helper" =>
        LET n == Len(last.line)
            tiles == { i \in 1..n : last.line[i] # 0 }
            Dest(i) == i + last.movement[i]
        IN  /\ Len(last.movement) = n
            /\ Len(last.new_list) = n
            /\ \A i \in (1..n) \ tiles : last.movement[i] = 0
            /\ \A i \in tiles :
                /\ Dest(i) \in 1..n
                /\ last.direction \in {LEFT, UP} => Dest(i) <= i
                /\ last.direction \in {RIGHT, DOWN} => Dest(i) >= i
            /\ \A i, j \in tiles : i < j => Dest(i) <= Dest(j)
            /\ \A d \in 1..n :
                /\ Cardinality(SourcesOf(d)) <= 2
                /\ \A i \in SourcesOf(d) :
                    last.new_list[d] =
                        IF Cardinality(SourcesOf(d)) = 1
                        THEN last.line[i]
                        ELSE last.line[i] * config.root_tile_value
                /\ last.new_list[d] # 0 => SourcesOf(d) # {}

\* [2,2,0,4] slid right: the two 2s go to the third cell, the 4 stays.
C19_Witness ==
    /\ last.op = "_slide_helper"
    /\ last.direction = RIGHT
    /\ last.line = <<2, 2, 0, 4>>
    /\ last.new_list = <<0, 0, 4, 4>>
    /\ last.movement = <<2, 1, 0, 0>>
    /\ SourcesOf(3) = {1, 2}
    /\ SourcesOf(4) = {4}

(***************************************************************************)
(* C20.  can_play() tells game over: where it is false, play_turn in each  *)
(* of the four directions returns BOARD_FULL and leaves grid and score     *)
(* unchanged with an all-zero movement matrix; where it is true and the    *)
(* grid holds a tile, the slide in some direction changes the grid.        *)
(***************************************************************************)
C20_CanPlayTellsGameOver ==
    /\ ~can_play(grid, config.grid_size) =>
        \A direction \in SlideDirection :
            \A o \in play_turn(grid, direction, config, score,
                               latest_spawn_result, latest_spawn_locations) :
                /\ o.result = BOARD_FULL
                /\ o.grid = grid
                /\ o.score = score
                /\ o.movement_matrix = ZeroMatrix(config.grid_size)
    /\ (can_play(grid, config.grid_size) /\ CountNonZero(grid) >= 1) =>
        \E direction \in SlideDirection :
            slide_tiles(grid, direction, config, score).grid # grid
    /\ (last.op = "play_turn" /\ ~can_play(last.grid, config.grid_size)) =>
        /\ last.result = BOARD_FULL
        /\ grid = last.grid
        /\ score = last.score
        /\ movement_matrix = ZeroMatrix(config.grid_size)

\* A turn played on a full 2 x 2 board without equal neighbours.
C20_Witness ==
    /\ last.op = "play_turn"
    /\ config.grid_size = 2
    /\ ~can_play(last.grid, config.grid_size)
    /\ last.result = BOARD_FULL
    /\ grid = last.grid
    /\ ~can_play(grid, config.grid_size)

InRange(p, size) == Len(p) = 2 /\ p[1] \in 0..(size - 1) /\ p[2] \in 0..(size - 1)

\* The entries of locs are pairs of the grid, pairwise distinct, and the cells
\* they name hold a tile.
DistinctTiles(locs, g) ==
    /\ \A k \in 1..Len(locs) : InRange(locs[k], Len(g))
    /\ \A j, k \in 1..Len(locs) : j # k => locs[j] # locs[k]
    /\ \A k \in 1..Len(locs) : GridGet(g, locs[k][1], locs[k][2]) # 0

C23_BoardFullTurnChangesNothing ==
    (last.op = "play_turn" /\ last.result = BOARD_FULL) =>
        /\ EmptyCells(last.grid) = {}
        /\ ~EqualNeighboursAlong(last.grid, last.direction)
        /\ last.slid = last.grid
        /\ grid = last.grid
        /\ score = last.score
        /\ movement_matrix = ZeroMatrix(config.grid_size)

\* A BOARD_FULL turn after a turn that moved tiles and scored: the movement
\* matrix of the earlier turn has been replaced by zeros, the score is kept.
C23_Witness ==
    /\ last.op = "play_turn"
    /\ last.result = BOARD_FULL
    /\ last.prev_op = "play_turn"
    /\ last.movement_matrix # ZeroMatrix(config.grid_size)
    /\ movement_matrix = ZeroMatrix(config.grid_size)
    /\ score > 0
    /\ score = last.score
    /\ grid = last.grid

\* v is root^k for some k >= 1 (root >= 2)
RECURSIVE IsPowerOf(_, _)
IsPowerOf(v, root) ==
    /\ v >= root
    /\ \/ v = root
       \/ v % root = 0 /\ IsPowerOf(v \div root, root)

(***************************************************************************)
(* C24.  In games with root_tile_value >= 2 that are constructed and then  *)
(* only played with play_turn, every cell is 0 or a power root^k, k >= 1,  *)
(* the grid has grid_size rows of grid_size cells, and the score is never  *)
(* negative and never lower than before the turn.                          *)
(***************************************************************************)
C24_PowersAndScoreGrow ==
    config.root_tile_value >= 2 =>
        /\ Len(grid) = config.grid_size
        /\ \A r \in 1..Len(grid) :
            /\ Len(grid[r]) = config.grid_size
            /\ \A c \in 1..Len(grid[r]) :
                grid[r][c] = 0 \/ IsPowerOf(grid[r][c], config.root_tile_value)
        /\ score >= 0
        /\ last.op = "play_turn" => score >= last.score

\* Two turns that both merged: the score grew twice and a tile root^3 exists.
C24_Witness ==
    /\ config.root_tile_value >= 2
    /\ last.op = "play_turn"
    /\ last.prev_op = "play_turn"
    /\ last.score > 0
    /\ score > last.score
    /\ \E p \in Cells(config.grid_size) :
        GridGet(grid, p[1], p[2]) = Pow(config.root_tile_value, 3)

====
